---- MODULE Spec2Model ----
(***************************************************************************)
(* WAFPierce bypass-detection engine (src/wafpierce/pierce.py and          *)
(* src/wafpierce/error_handler.py): the response classifier _is_bypass,    *)
(* the baseline retry wrapper, scan(), the constructor with its input      *)
(* validation, the retry decorator on its own, and the exit status of      *)
(* main().                                                                 *)
(***************************************************************************)
EXTENDS Integers, Sequences, FiniteSets, TLC

VARIABLES
    _baseline_size,     \* self._baseline_size   (NoneSize models None)
    _baseline_hash,     \* self._baseline_hash   ("None" models None)
    _baseline_status,   \* self._baseline_status (NoneStatus models None)
    _baseline_headers,  \* self._baseline_headers: a plain dict, as-sent key -> value
    results,            \* self.results
    calls,              \* number of direct _is_bypass calls made on the scanner so far
    bypass_result,      \* the last direct call: its response and what it returned
    pc,                 \* where the calling thread is: before __init__ ("new"), holding
                        \* a scanner with no scan() running ("constructed"), inside
                        \* scan(), inside a retry wrapper, or after main() exited
    threads,            \* self.threads: the size of the worker pool
    attempt,            \* retry wrapper of _get_baseline: attempts made so far
    last_exception,     \* retry wrapper of _get_baseline: last_exception
    wait_time,          \* retry wrapper of _get_baseline: the back-off it sleeps, in ms
    raised,             \* the exception scan() raised ("None": none)
    tasks,              \* the futures of scan(): one technique task each
    error_count,        \* scan(): error_count
    probes,             \* probe requests issued so far
    args,               \* the arguments CloudFrontBypasser(...) is called with
    exit_code,          \* the status main() passes to sys.exit (NoExit: still running)
    wrapped             \* a function decorated with retry_on_network_error: the
                        \* decorator's arguments and how often the function was invoked

baseline_vars == <<_baseline_size, _baseline_hash, _baseline_status, _baseline_headers>>

caller_vars == <<args, exit_code, wrapped>>

scan_vars == <<pc, threads, attempt, last_exception, wait_time, raised, tasks, error_count,
               probes, caller_vars>>

vars == <<_baseline_size, _baseline_hash, _baseline_status, _baseline_headers,
          results, calls, bypass_result,
          pc, threads, attempt, last_exception, wait_time, raised, tasks, error_count,
          probes, args, exit_code, wrapped>>

\* self._baseline_size = None and self._baseline_status = None before a baseline exists.
NoneSize == -1
NoneStatus == -1

\* How many times one behaviour of SpecClassify classifies its response.
MaxCalls == 2

\* The scan model: the largest pool size, how many techniques of the catalog
\* scan() submits (the first NumTechniques) and how many variants of each
\* technique are tried (the first MaxVariants).
MaxThreads == 2
NumTechniques == 2
MaxVariants == 2

-----------------------------------------------------------------------------
(* Strings.  str.lower() and the substring test `needle in hay` are tables *)
(* over the strings the model uses.                                        *)

lower(s) ==
    CASE s = "Server" -> "server"
      [] s = "X-Powered-By" -> "x-powered-by"
      [] s = "Location" -> "location"
      [] s = "CloudFront" -> "cloudfront"
      [] s = "Apache" -> "apache"
      [] s = "NGINX" -> "nginx"
      [] s = "Internal Server Error" -> "internal server error"
      [] s = "DEBUG MODE on Apache/2.4" -> "debug mode on apache/2.4"
      [] s = "Fatal error: nginx/1.18" -> "fatal error: nginx/1.18"
      [] s = "Traceback; Warning: x" -> "traceback; warning: x"
      [] OTHER -> s

\* The needles of error_indicators, backend_servers and handle_request_errors
\* that occur in a lower-cased string.
Substrings(hay) ==
    CASE hay = "nginx" -> {"nginx"}
      [] hay = "apache" -> {"apache"}
      [] hay = "internal server error" -> {"internal server error"}
      [] hay = "debug mode on apache/2.4" -> {"debug mode", "apache/", "apache"}
      [] hay = "fatal error: nginx/1.18" -> {"fatal error", "nginx/", "nginx"}
      [] hay = "traceback; warning: x" -> {"traceback", "warning:"}
      [] hay = "name or service not known" -> {"name or service not known"}
      [] hay = "certificate verify failed" -> {"certificate verify failed"}
      [] hay = "cannot connect to proxy" -> {"proxy"}
      [] OTHER -> {}

\* Python's `needle in hay` for str.
In(needle, hay) == needle \in Substrings(hay)

-----------------------------------------------------------------------------
(* requests.Response: status_code, content (its length, its md5 digest and *)
(* its decoded text) and headers, a CaseInsensitiveDict kept here as the   *)
(* mapping from the header names as the origin sent them to their values.  *)

\* CaseInsensitiveDict: `key in headers`.
ci_contains(headers, key) == \E k \in DOMAIN headers : lower(k) = lower(key)

\* CaseInsensitiveDict: headers[key] and headers.get(key, default).
ci_get(headers, key, default) ==
    IF ci_contains(headers, key)
    THEN headers[CHOOSE k \in DOMAIN headers : lower(k) = lower(key)]
    ELSE default

\* dict(baseline.headers): a plain dict with the keys in the case the origin
\* sent them; its lookups are exact.
dict(headers) == headers

\* Plain dict: `key in d` and d.get(key, default).
dict_contains(d, key) == key \in DOMAIN d

dict_get(d, key, default) == IF key \in DOMAIN d THEN d[key] ELSE default

\* len(response.content), hashlib.md5(response.content).hexdigest(), response.text
len(content) == content.len

md5(content) == content.digest

text(response) == response.content.text

-----------------------------------------------------------------------------
(* _is_bypass                                                              *)

Reason(t, a, b, s) == [text |-> t, n1 |-> a, n2 |-> b, s |-> s]

Verdict(b, r, sev) == [bypass |-> b, reason |-> r, severity |-> sev]

abs(n) == IF n < 0 THEN -n ELSE n

\* response.status_code >= 400
IsBlockedStatus_5xx(status_code) == status_code >= 500

IsBlockedStatus(status_code) == status_code >= 400

\* self._baseline_status in [403, 401]
AuthStatuses_403 == {403}

AuthStatuses == {403, 401}

\* size_diff_percent > 10, with
\* size_diff_percent = (size_diff / baseline_size) * 100 if baseline_size > 0 else 0.
\* The float comparison is taken exactly: size_diff / baseline_size * 100 > 10.
SizeDiffPercentOver10_floordiv(size_diff, baseline_size) ==
    baseline_size > 0 /\ (size_diff \div baseline_size) * 100 > 10

SizeDiffPercentOver10_unguarded(size_diff, baseline_size) ==
    size_diff * 100 > 10 * baseline_size

SizeDiffPercentOver10(size_diff, baseline_size) ==
    baseline_size > 0 /\ size_diff * 100 > 10 * baseline_size

\* f'{size_diff_percent:.1f}': the percentage in tenths of a percent, rounded
\* to the nearest tenth (ties to even).
Percent1f(size_diff, baseline_size) ==
    IF baseline_size > 0
    THEN LET n == size_diff * 1000
             q == n \div baseline_size
             r2 == 2 * (n % baseline_size)
         IN  IF r2 > baseline_size \/ (r2 = baseline_size /\ q % 2 = 1)
             THEN q + 1 ELSE q
    ELSE 0

error_indicators_by_severity ==
    << <<"exception", "CRITICAL">>, <<"traceback", "CRITICAL">>,
       <<"stack trace", "CRITICAL">>, <<"sql syntax", "CRITICAL">>,
       <<"mysql_", "CRITICAL">>, <<"postgresql", "CRITICAL">>,
       <<"ora-", "CRITICAL">>,
       <<"internal server error", "HIGH">>, <<"500 internal", "HIGH">>,
       <<"debug mode", "HIGH">>, <<"fatal error", "HIGH">>,
       <<"apache/", "MEDIUM">>, <<"nginx/", "MEDIUM">>,
       <<"iis/", "MEDIUM">>, <<"tomcat/", "MEDIUM">>,
       <<"warning:", "MEDIUM">> >>

error_indicators ==
    << <<"exception", "CRITICAL">>, <<"traceback", "CRITICAL">>,
       <<"stack trace", "CRITICAL">>, <<"sql syntax", "CRITICAL">>,
       <<"mysql_", "CRITICAL">>, <<"postgresql", "CRITICAL">>,
       <<"ora-", "CRITICAL">>,
       <<"internal server error", "HIGH">>, <<"500 internal", "HIGH">>,
       <<"apache/", "MEDIUM">>, <<"nginx/", "MEDIUM">>,
       <<"iis/", "MEDIUM">>, <<"tomcat/", "MEDIUM">>,
       <<"debug mode", "HIGH">>, <<"fatal error", "HIGH">>,
       <<"warning:", "MEDIUM">> >>

\* for indicator, severity in error_indicators: if indicator in body_lower: return
\* The index of the first indicator found, 0 when none is.
FirstIndicator(body_lower) ==
    LET hits == {i \in 1..Len(error_indicators) : In(error_indicators[i][1], body_lower)}
    IN  IF hits = {} THEN 0 ELSE CHOOSE i \in hits : \A j \in hits : i <= j

backend_servers == {"apache", "nginx", "iis", "tomcat", "jetty", "gunicorn", "uwsgi"}

\* 'server' in response.headers and, for some backend of backend_servers,
\* backend in server and backend not in self._baseline_headers.get('server', '').lower()
ServerExposed(response) ==
    /\ ci_contains(response.headers, "server")
    /\ \E backend \in backend_servers :
          /\ In(backend, lower(ci_get(response.headers, "server", "")))
          /\ ~In(backend, lower(dict_get(_baseline_headers, "server", "")))

\* 'x-powered-by' in response.headers and 'x-powered-by' not in self._baseline_headers
PoweredByExposed(response) ==
    /\ ci_contains(response.headers, "x-powered-by")
    /\ ~dict_contains(_baseline_headers, "x-powered-by")

RedirectStatuses == {301, 302, 307, 308}

\* response.status_code in [301, 302, 307, 308] and
\* current_location and current_location != baseline_location
RedirectChanged(response) ==
    /\ response.status_code \in RedirectStatuses
    /\ LET baseline_location == dict_get(_baseline_headers, "location", "")
           current_location == ci_get(response.headers, "location", "")
       IN  current_location # "" /\ current_location # baseline_location

_is_bypass_low(response) ==
    Verdict(TRUE, Reason("", 0, 0, ""), "LOW")

_is_bypass(response) ==
    IF _baseline_size = NoneSize
    THEN Verdict(FALSE, Reason("No baseline", 0, 0, ""), "INFO")
    ELSE IF IsBlockedStatus(response.status_code)
    THEN Verdict(FALSE, Reason("Blocked", response.status_code, 0, ""), "INFO")
    ELSE
    LET current_size == len(response.content)
        current_hash == md5(response.content)
        size_diff == abs(current_size - _baseline_size)
        body_lower == lower(text(response))
        first == FirstIndicator(body_lower)
    IN  IF _baseline_status \in AuthStatuses /\ response.status_code = 200
        THEN Verdict(TRUE, Reason("Authentication bypass", _baseline_status,
                                  response.status_code, ""), "CRITICAL")
        ELSE IF SizeDiffPercentOver10(size_diff, _baseline_size)
        THEN Verdict(TRUE, Reason("Content difference", size_diff,
                                  Percent1f(size_diff, _baseline_size), ""), "HIGH")
        ELSE IF current_hash # _baseline_hash /\ size_diff > 100
        THEN Verdict(TRUE, Reason("Different content returned (hash mismatch)",
                                  0, 0, ""), "HIGH")
        ELSE IF first # 0
        THEN Verdict(TRUE, Reason("Backend exposed", 0, 0, error_indicators[first][1]),
                     error_indicators[first][2])
        ELSE IF ServerExposed(response)
        THEN Verdict(TRUE, Reason("Backend server exposed", 0, 0,
                                  ci_get(response.headers, "server", "")), "MEDIUM")
        ELSE IF PoweredByExposed(response)
        THEN Verdict(TRUE, Reason("Backend tech exposed", 0, 0,
                                  ci_get(response.headers, "x-powered-by", "")), "MEDIUM")
        ELSE IF RedirectChanged(response)
        THEN Verdict(TRUE, Reason("Different redirect", 0, 0,
                                  ci_get(response.headers, "location", "")), "MEDIUM")
        ELSE Verdict(FALSE, Reason("Response identical to baseline", 0, 0, ""), "INFO")

-----------------------------------------------------------------------------
(* Exceptions: the taxonomy of exceptions.py and handle_request_errors.     *)

\* The base class of each exception class of exceptions.py.
Parent_rate_limit_network(kind) ==
    CASE kind \in {"TargetUnreachableError", "RequestTimeoutError", "SSLError",
                   "DNSResolutionError", "TooManyRedirectsError", "ProxyError",
                   "RateLimitError"}
            -> "NetworkError"
      [] kind \in {"InvalidTargetError", "InvalidSchemeError"} -> "ValidationError"
      [] kind \in {"BaselineFailedError", "ScanInterruptedError"} -> "ScanError"
      [] kind \in {"InvalidThreadCountError", "InvalidDelayError", "InvalidTimeoutError"}
            -> "ConfigurationError"
      [] kind \in {"NetworkError", "ValidationError", "ScanError", "ConfigurationError"}
            -> "WAFPierceError"
      [] OTHER -> "Exception"

Parent(kind) ==
    CASE kind \in {"TargetUnreachableError", "RequestTimeoutError", "SSLError",
                   "DNSResolutionError", "TooManyRedirectsError", "ProxyError"}
            -> "NetworkError"
      [] kind \in {"InvalidTargetError", "InvalidSchemeError"} -> "ValidationError"
      [] kind \in {"BaselineFailedError", "RateLimitError", "ScanInterruptedError"}
            -> "ScanError"
      [] kind \in {"InvalidThreadCountError", "InvalidDelayError", "InvalidTimeoutError"}
            -> "ConfigurationError"
      [] kind \in {"NetworkError", "ValidationError", "ScanError", "ConfigurationError"}
            -> "WAFPierceError"
      [] OTHER -> "Exception"

\* isinstance(e, cls) for an exception of class `kind`.
IsA(kind, cls) ==
    \/ kind = cls
    \/ Parent(kind) = cls
    \/ Parent(Parent(kind)) = cls
    \/ cls = "Exception"

\* An exception of the requests library: its class, its message and, for an
\* HTTPError, the status of its response.
RawException(c, m, st) == [cls |-> c, msg |-> m, status |-> st]

\* isinstance(exception, requests.exceptions.<base>)
RawIsA(exception, base) ==
    CASE exception.cls = "ConnectTimeout" -> base \in {"ConnectionError", "Timeout"}
      [] exception.cls = "ReadTimeout" -> base = "Timeout"
      [] exception.cls = "SSLError" -> base \in {"ConnectionError", "SSLError"}
      [] exception.cls = "ProxyError" -> base = "ConnectionError"
      [] OTHER -> base = exception.cls

\* handle_request_errors(url, exception): the class of the exception it raises.
handle_request_errors(exception) ==
    LET error_msg == lower(exception.msg)
    IN  IF RawIsA(exception, "ConnectionError")
        THEN IF In("name or service not known", error_msg)
                  \/ In("nodename nor servname", error_msg)
             THEN "DNSResolutionError"
             ELSE IF In("certificate verify failed", error_msg)
             THEN "SSLError"
             ELSE IF In("proxy", error_msg)
             THEN "ProxyError"
             ELSE "TargetUnreachableError"
        ELSE IF RawIsA(exception, "Timeout") THEN "RequestTimeoutError"
        ELSE IF RawIsA(exception, "SSLError") THEN "SSLError"
        ELSE IF RawIsA(exception, "TooManyRedirects") THEN "TooManyRedirectsError"
        ELSE IF RawIsA(exception, "HTTPError") /\ exception.status = 429
        THEN "RateLimitError"
        ELSE "NetworkError"

-----------------------------------------------------------------------------
(* scan(): the baseline with its retry wrapper, the worker pool and the     *)
(* technique tasks.                                                        *)

NoHeaders == [k \in {} |-> ""]

Content(n, d, t) == [len |-> n, digest |-> d, text |-> t]

Response(st, c, h) == [status_code |-> st, content |-> c, headers |-> h]

NoResponse == Response(0, Content(0, "", ""), NoHeaders)

NoCall == [response |-> NoResponse, out |-> Verdict(FALSE, Reason("", 0, 0, ""), "")]

\* @retry_on_network_error(max_retries=3, backoff_factor=0.5) on _get_baseline;
\* backoff_factor in milliseconds.
max_retries == 3
backoff_factor == 500

\* The techniques list of scan() with the number of variants of each.
techniques_three_or_more ==
    << [name |-> "_test_host_header_injection", variants |-> 5],
       [name |-> "_test_x_forwarded_for", variants |-> 5],
       [name |-> "_test_x_forwarded_host", variants |-> 4],
       [name |-> "_test_x_original_url", variants |-> 4],
       [name |-> "_test_cache_control", variants |-> 4],
       [name |-> "_test_encoding_bypass", variants |-> 4],
       [name |-> "_test_method_bypass", variants |-> 6],
       [name |-> "_test_content_type_bypass", variants |-> 4],
       [name |-> "_test_http2_downgrade", variants |-> 5],
       [name |-> "_test_websocket_upgrade", variants |-> 3],
       [name |-> "_test_range_header", variants |-> 4],
       [name |-> "_test_double_encoding", variants |-> 5] >>

techniques ==
    << [name |-> "_test_host_header_injection", variants |-> 5],
       [name |-> "_test_x_forwarded_for", variants |-> 5],
       [name |-> "_test_x_forwarded_host", variants |-> 4],
       [name |-> "_test_x_original_url", variants |-> 4],
       [name |-> "_test_cache_control", variants |-> 4],
       [name |-> "_test_encoding_bypass", variants |-> 4],
       [name |-> "_test_method_bypass", variants |-> 6],
       [name |-> "_test_content_type_bypass", variants |-> 4],
       [name |-> "_test_http2_downgrade", variants |-> 5],
       [name |-> "_test_websocket_upgrade", variants |-> 2],
       [name |-> "_test_range_header", variants |-> 4],
       [name |-> "_test_double_encoding", variants |-> 5] >>

\* The techniques the model submits and the variants each of them tries.
Submitted == 1..(IF NumTechniques < Len(techniques) THEN NumTechniques ELSE Len(techniques))

Variants(t) ==
    IF techniques[t].variants < MaxVariants THEN techniques[t].variants ELSE MaxVariants

\* What the origin may answer to the baseline request, and how the request may fail.
ScanBaselines ==
    { Response(200, Content(2000, "H0", ""), ("Server" :> "CloudFront")),
      Response(200, Content(1000, "H0", ""), ("Server" :> "CloudFront")),
      Response(403, Content(512, "H0", ""), ("Server" :> "CloudFront")),
      Response(401, Content(512, "H0", ""), ("Server" :> "CloudFront")) }

BaselineFailures ==
    { RawException("ConnectionError", "connection refused", 0),
      RawException("ConnectionError", "name or service not known", 0),
      RawException("ReadTimeout", "read timed out", 0) }

\* What the origin may answer to a probe, and how a probe request may fail.
ProbeResponses ==
    { Response(403, Content(520, "H1", ""), ("Server" :> "CloudFront")),
      Response(200, Content(2000, "H1", "Traceback; Warning: x"), ("Server" :> "Apache")) }

ProbeFailures == { RawException("ReadTimeout", "read timed out", 0) }

\* A scanner as __init__ leaves it: no baseline.
NoBaseline ==
    /\ _baseline_size = NoneSize
    /\ _baseline_hash = "None"
    /\ _baseline_status = NoneStatus
    /\ _baseline_headers = NoHeaders

\* scan(), lines 145-148: the baseline fields taken from the baseline response.
SetBaseline_skip(baseline) == UNCHANGED baseline_vars

SetBaseline(baseline) ==
    /\ _baseline_size' = len(baseline.content)
    /\ _baseline_hash' = md5(baseline.content)
    /\ _baseline_status' = baseline.status_code
    /\ _baseline_headers' = dict(baseline.headers)

\* One call self._is_bypass(response).
Classify_rebaselining(response) ==
    /\ bypass_result' = [response |-> response, out |-> _is_bypass(response)]
    /\ calls' = calls + 1
    /\ IF _baseline_size # NoneSize /\ response.status_code < 400
       THEN SetBaseline(response)
       ELSE UNCHANGED baseline_vars
    /\ UNCHANGED results

Classify(response) ==
    /\ bypass_result' = [response |-> response, out |-> _is_bypass(response)]
    /\ calls' = calls + 1
    /\ UNCHANGED <<baseline_vars, results>>

\* bool(response): requests.Response.__bool__ is response.ok, false for a
\* status of 400 or more.
Truthy(response) == response.status_code < 400

\* A future of the pool: not yet submitted ("idle"), queued ("pending"), its
\* technique about to request variant i + 1 ("running"), sleeping `delay`
\* after the response resp ("sleeping") or handling a failed request
\* ("skipping"), finished with the list `local`
\* ("done"), or consumed by the as_completed loop ("collected").
Task(st, i, resp, local) == [state |-> st, i |-> i, resp |-> resp, local |-> local]

IdleTask == Task("idle", 0, NoResponse, <<>>)

\* The dict _test_request returns for a response.
ProbeResult(t, i, response, out) ==
    [bypass |-> out.bypass, status |-> response.status_code,
     technique |-> techniques[t].name, variant |-> i,
     size |-> len(response.content), reason |-> out.reason, severity |-> out.severity]

\* A Python value passed as an argument: an int, a float or a str.  Numbers
\* keep their value; delays are in milliseconds.
PyInt(v) == [type |-> "int", v |-> v]

PyFloat(v) == [type |-> "float", v |-> v]

PyStr == [type |-> "str", v |-> 0]

\* The arguments of CloudFrontBypasser(target, threads, delay, timeout).
Args(target, n, delay, timeout) ==
    [target |-> target, threads |-> n, delay |-> delay, timeout |-> timeout]

\* main() has not called sys.exit.
NoExit == -1

\* self.threads before __init__ has assigned it.
NoThreads == 0

\* retry_on_network_error(max_retries, backoff_factor, exceptions) around a
\* function that has been invoked `invoked` times.
Wrapper(n, b, x, invoked) ==
    [max_retries |-> n, backoff_factor |-> b, exceptions |-> x, invoked |-> invoked]

NoWrapper == Wrapper(0, 0, {}, 0)

Init ==
    /\ NoBaseline
    /\ results = <<>>
    /\ calls = 0
    /\ bypass_result = NoCall
    /\ pc = "constructed"
    /\ threads \in 1..MaxThreads
    /\ attempt = 0
    /\ last_exception = "None"
    /\ wait_time = 0
    /\ raised = "None"
    /\ tasks = [t \in Submitted |-> IdleTask]
    /\ error_count = 0
    /\ probes = 0
    /\ args = Args("https://example.com", PyInt(threads), PyFloat(200), PyInt(5))
    /\ exit_code = NoExit
    /\ wrapped = NoWrapper

\* scan() is called: it goes to establish the baseline.
ScanCall_clearing ==
    /\ pc = "constructed"
    /\ pc' = "baseline"
    /\ attempt' = 0
    /\ last_exception' = "None"
    /\ results' = <<>>
    /\ UNCHANGED <<baseline_vars, calls, bypass_result, caller_vars, threads, wait_time,
                   raised, tasks, error_count, probes>>

ScanCall ==
    /\ pc = "constructed"
    /\ pc' = "baseline"
    /\ attempt' = 0
    /\ last_exception' = "None"
    /\ UNCHANGED <<baseline_vars, results, calls, bypass_result, caller_vars, threads, wait_time,
                   raised, tasks, error_count, probes>>

\* The except clauses of scan() around the baseline: BaselineFailedError and
\* TargetUnreachableError pass, anything else becomes BaselineFailedError.
BaselineRaise_wrap_all(kind) == "BaselineFailedError"

BaselineRaise(kind) ==
    IF IsA(kind, "BaselineFailedError") THEN kind
    ELSE IF IsA(kind, "TargetUnreachableError") THEN kind
    ELSE "BaselineFailedError"

\* What scan() does with the response _get_baseline returned: raise
\* BaselineFailedError if it is falsy, else record the baseline and submit one
\* task per technique.
BaselineReturned(baseline) ==
    IF Truthy(baseline)
    THEN /\ SetBaseline(baseline)
         /\ tasks' = [t \in Submitted |-> Task("pending", 0, NoResponse, <<>>)]
         /\ pc' = "collect"
         /\ raised' = raised
    ELSE /\ pc' = "raised"
         /\ raised' = BaselineRaise("BaselineFailedError")
         /\ UNCHANGED <<baseline_vars, tasks>>

\* The retry wrapper: is another attempt left after the failure of attempt
\* number `a` (counted from 0) of `n`?
MoreAttempts_one_more(a, n) == a < n

MoreAttempts(a, n) == a < n - 1

\* The retry wrapper: wait_time = backoff_factor * (2 ** attempt), in ms.
wait_time_fixed(b, a) == b

wait_time_of(b, a) == b * 2^a

\* One attempt of the retry wrapper around _get_baseline that returns a
\* response: the wrapper returns it and its locals are gone.
BaselineResponse ==
    /\ pc = "baseline"
    /\ \E baseline \in ScanBaselines : BaselineReturned(baseline)
    /\ attempt' = 0
    /\ last_exception' = "None"
    /\ UNCHANGED <<results, calls, bypass_result, caller_vars, threads, wait_time,
                   error_count, probes>>

\* One attempt that fails: safe_request hands the exception to
\* handle_request_errors; the wrapper sleeps its back-off after a NetworkError
\* if an attempt is left, re-raises the last one if none is, and lets anything
\* else through.  `attempt` counts the attempts made.
BaselineFailure ==
    /\ pc = "baseline"
    /\ \E exception \in BaselineFailures :
          LET e == handle_request_errors(exception)
          IN  IF IsA(e, "NetworkError")
              THEN /\ last_exception' = e
                   /\ attempt' = attempt + 1
                   /\ IF MoreAttempts(attempt, max_retries)
                      THEN /\ pc' = "backoff"
                           /\ wait_time' = wait_time_of(backoff_factor, attempt)
                           /\ raised' = raised
                      ELSE /\ pc' = "raised"
                           /\ raised' = BaselineRaise(e)
                           /\ wait_time' = wait_time
              ELSE /\ pc' = "raised" /\ raised' = BaselineRaise(e)
                   /\ UNCHANGED <<attempt, last_exception, wait_time>>
    /\ UNCHANGED <<baseline_vars, results, calls, bypass_result, caller_vars, threads, tasks,
                   error_count, probes>>

\* time.sleep(wait_time) of the retry wrapper is over: the next attempt.
BackoffDone ==
    /\ pc = "backoff"
    /\ pc' = "baseline"
    /\ wait_time' = 0
    /\ UNCHANGED <<baseline_vars, results, calls, bypass_result, caller_vars, threads, attempt,
                   last_exception, raised, tasks, error_count, probes>>

Running == {t \in Submitted : tasks[t].state \in {"running", "sleeping", "skipping"}}

\* A worker of the pool takes the next queued task.
TaskStart(t) ==
    /\ pc \in {"collect", "interrupted"}
    /\ tasks[t].state = "pending"
    /\ \A u \in Submitted : u < t => tasks[u].state # "pending"
    /\ Cardinality(Running) < threads
    /\ tasks' = [tasks EXCEPT ![t].state = "running"]
    /\ UNCHANGED <<baseline_vars, results, calls, bypass_result, caller_vars, pc, threads, attempt,
                   last_exception, wait_time, raised, error_count, probes>>

\* The technique's loop moves to its next variant, or returns its list.
AfterVariant(t, local) ==
    IF tasks[t].i + 1 < Variants(t)
    THEN Task("running", tasks[t].i + 1, NoResponse, local)
    ELSE Task("done", tasks[t].i + 1, NoResponse, local)

\* _test_request: safe_request returns a response; the task then sleeps `delay`.
ProbeResponse(t) ==
    /\ tasks[t].state = "running"
    /\ \E response \in ProbeResponses :
          tasks' = [tasks EXCEPT ![t] = Task("sleeping", tasks[t].i, response, tasks[t].local)]
    /\ probes' = probes + 1
    /\ UNCHANGED <<baseline_vars, results, calls, bypass_result, caller_vars, pc, threads, attempt,
                   last_exception, wait_time, raised, error_count>>

\* _test_request: the one call of safe_request raises; `except Exception`
\* catches what handle_request_errors raised ("skipping").
ProbeFailure_retrying(t) ==
    /\ tasks[t].state = "running"
    /\ \E exception \in ProbeFailures :
          /\ IsA(handle_request_errors(exception), "Exception")
          /\ tasks' = [tasks EXCEPT ![t].state = "skipping"]
    /\ probes' = probes + max_retries
    /\ UNCHANGED <<baseline_vars, results, calls, bypass_result, caller_vars, pc, threads, attempt,
                   last_exception, wait_time, raised, error_count>>

ProbeFailure(t) ==
    /\ tasks[t].state = "running"
    /\ \E exception \in ProbeFailures :
          /\ IsA(handle_request_errors(exception), "Exception")
          /\ tasks' = [tasks EXCEPT ![t].state = "skipping"]
    /\ probes' = probes + 1
    /\ UNCHANGED <<baseline_vars, results, calls, bypass_result, caller_vars, pc, threads, attempt,
                   last_exception, wait_time, raised, error_count>>

\* _test_request returns None and the technique goes on with its next variant.
ProbeSkipped_abandon(t) ==
    /\ tasks[t].state = "skipping"
    /\ tasks' = [tasks EXCEPT ![t] = Task("done", tasks[t].i + 1, NoResponse, tasks[t].local)]
    /\ UNCHANGED <<baseline_vars, results, calls, bypass_result, caller_vars, pc, threads, attempt,
                   last_exception, wait_time, raised, error_count, probes>>

ProbeSkipped(t) ==
    /\ tasks[t].state = "skipping"
    /\ tasks' = [tasks EXCEPT ![t] = AfterVariant(t, tasks[t].local)]
    /\ UNCHANGED <<baseline_vars, results, calls, bypass_result, caller_vars, pc, threads, attempt,
                   last_exception, wait_time, raised, error_count, probes>>

\* if result and result['bypass']: results.append(result)
Retain_all(local, result) == Append(local, result)

Retain(local, result) == IF result.bypass THEN Append(local, result) ELSE local

\* After the sleep: _is_bypass, the result dict, and the technique's append.
ProbeClassified(t) ==
    /\ tasks[t].state = "sleeping"
    /\ LET result == ProbeResult(t, tasks[t].i + 1, tasks[t].resp, _is_bypass(tasks[t].resp))
       IN  tasks' = [tasks EXCEPT ![t] = AfterVariant(t, Retain(tasks[t].local, result))]
    /\ UNCHANGED <<baseline_vars, results, calls, bypass_result, caller_vars, pc, threads, attempt,
                   last_exception, wait_time, raised, error_count, probes>>

\* as_completed yields a finished future: self.results.extend(result).
Collect_overwrite(t) ==
    /\ pc = "collect"
    /\ tasks[t].state = "done"
    /\ results' = tasks[t].local
    /\ tasks' = [tasks EXCEPT ![t].state = "collected"]
    /\ UNCHANGED <<baseline_vars, calls, bypass_result, caller_vars, pc, threads, attempt,
                   last_exception, wait_time, raised, error_count, probes>>

Collect(t) ==
    /\ pc = "collect"
    /\ tasks[t].state = "done"
    /\ results' = results \o tasks[t].local
    /\ tasks' = [tasks EXCEPT ![t].state = "collected"]
    /\ UNCHANGED <<baseline_vars, calls, bypass_result, caller_vars, pc, threads, attempt,
                   last_exception, wait_time, raised, error_count, probes>>

\* as_completed has yielded every future of scan().
AllCollected_first == \E t \in Submitted : tasks[t].state = "collected"

AllCollected == \A t \in Submitted : tasks[t].state = "collected"

\* Every future has been consumed: scan() returns self.results.
ScanReturn ==
    /\ pc = "collect"
    /\ AllCollected
    /\ pc' = "returned"
    /\ UNCHANGED <<baseline_vars, results, calls, bypass_result, caller_vars, threads, attempt,
                   last_exception, wait_time, raised, tasks,
                   error_count, probes>>

\* The user stops the scan: KeyboardInterrupt reaches the thread that called
\* scan() inside the `with ThreadPoolExecutor` block.  The exception leaves the
\* as_completed loop, and the block's exit waits for the pool.
Interrupt ==
    /\ pc = "collect"
    /\ pc' = "interrupted"
    /\ UNCHANGED <<baseline_vars, results, calls, bypass_result, caller_vars, threads, attempt,
                   last_exception, wait_time, raised, tasks, error_count, probes>>

\* Every submitted task has run to its end, the pool's shutdown(wait=True)
\* returns and scan() raises ScanInterruptedError.
PoolDrained == \A t \in Submitted : tasks[t].state \in {"done", "collected"}

ScanInterrupted ==
    /\ pc = "interrupted"
    /\ PoolDrained
    /\ pc' = "raised"
    /\ raised' = "ScanInterruptedError"
    /\ UNCHANGED <<baseline_vars, results, calls, bypass_result, caller_vars, threads, attempt,
                   last_exception, wait_time, tasks, error_count, probes>>

Next ==
    \/ ScanCall
    \/ BaselineResponse
    \/ BaselineFailure
    \/ BackoffDone
    \/ \E t \in Submitted : TaskStart(t)
    \/ \E t \in Submitted : ProbeResponse(t)
    \/ \E t \in Submitted : ProbeFailure(t)
    \/ \E t \in Submitted : ProbeSkipped(t)
    \/ \E t \in Submitted : ProbeClassified(t)
    \/ \E t \in Submitted : Collect(t)
    \/ ScanReturn
    \/ Interrupt
    \/ ScanInterrupted

Spec == Init /\ [][Next]_vars

-----------------------------------------------------------------------------
(* The classifier on its own: a scanner object whose baseline fields hold  *)
(* any baseline, and _is_bypass called on any response.                    *)

BaselineStatuses == {200, 401, 403}

\* Baseline bodies: md5 of the empty body is one fixed digest.
BaselineContents ==
    {Content(0, "D_EMPTY", ""), Content(512, "H0", ""), Content(1000, "H0", ""),
     Content(2000, "H0", "")}

BaselineHeaders ==
    { NoHeaders,
      ("Server" :> "CloudFront"),
      ("Server" :> "nginx") @@ ("X-Powered-By" :> "PHP") @@ ("Location" :> "/a"),
      ("server" :> "nginx") @@ ("x-powered-by" :> "PHP") @@ ("location" :> "/a") }

ResponseStatuses == {200, 301, 302, 307, 308, 403, 500}

Texts ==
    {"", "Internal Server Error", "DEBUG MODE on Apache/2.4",
     "Fatal error: nginx/1.18", "Traceback; Warning: x"}

ResponseContents ==
    {Content(0, "D_EMPTY", "")} \cup
    {Content(n, d, t) : n \in {90, 520, 1300, 2000, 2200, 2600}, d \in {"H0", "H1"}, t \in Texts}

ResponseHeaders ==
    { NoHeaders,
      ("Server" :> "CloudFront"),
      ("Server" :> "nginx") @@ ("X-Powered-By" :> "PHP") @@ ("Location" :> "/a"),
      ("server" :> "NGINX") @@ ("x-powered-by" :> "PHP") @@ ("location" :> "/a"),
      ("Server" :> "Apache"),
      ("X-Powered-By" :> "PHP"),
      ("Location" :> "/a"),
      ("Location" :> "/b") }

Responses ==
    {Response(st, c, h) : st \in ResponseStatuses, c \in ResponseContents,
                          h \in ResponseHeaders}

InitClassify ==
    /\ \/ NoBaseline
       \/ \E st \in BaselineStatuses, c \in BaselineContents, h \in BaselineHeaders :
             /\ _baseline_size = len(c)
             /\ _baseline_hash = md5(c)
             /\ _baseline_status = st
             /\ _baseline_headers = dict(h)
    /\ results = <<>>
    /\ calls = 0
    /\ bypass_result = NoCall
    /\ pc = "constructed"
    /\ threads = 1
    /\ attempt = 0
    /\ last_exception = "None"
    /\ wait_time = 0
    /\ raised = "None"
    /\ tasks = [t \in Submitted |-> IdleTask]
    /\ error_count = 0
    /\ probes = 0
    /\ args = Args("https://example.com", PyInt(threads), PyFloat(200), PyInt(5))
    /\ exit_code = NoExit
    /\ wrapped = NoWrapper

\* The first call, on any response.
ClassifyFirst ==
    /\ calls = 0
    /\ \E response \in Responses : Classify(response)
    /\ UNCHANGED scan_vars

\* A further call on the response of the call before it.
ClassifyAgain ==
    /\ calls \in 1..(MaxCalls - 1)
    /\ Classify(bypass_result.response)
    /\ UNCHANGED scan_vars

NextClassify == ClassifyFirst \/ ClassifyAgain

SpecClassify == InitClassify /\ [][NextClassify]_vars

-----------------------------------------------------------------------------
(* Properties of the classifier, checked under SpecClassify.               *)

Called == calls > 0

last_response == bypass_result.response

last_out == bypass_result.out

\* Rule 2 as the specification words it.
Rule2Applies ==
    _baseline_status \in {401, 403} /\ last_response.status_code = 200

\* |size - baseline.size| and "more than 10% of a non-zero baseline.size".
SizeDelta == abs(last_response.content.len - _baseline_size)

DeltaOver10Percent == _baseline_size > 0 /\ SizeDelta * 10 > _baseline_size

\* C1: a response with status >= 400 is never classified as a bypass, whatever
\* the baseline and the rest of the response.
C1_BlockedNeverBypass ==
    (Called /\ last_response.status_code >= 400) => last_out.bypass = FALSE

C1_Witness ==
    /\ Called
    /\ _baseline_status = 200 /\ _baseline_size = 2000
    /\ last_response.status_code = 403
    /\ last_response.content = Content(2600, "H1", "Internal Server Error")
    /\ last_response.headers = ("Server" :> "Apache")
    /\ last_out.bypass = FALSE /\ last_out.reason.text = "Blocked"

\* C2: baseline status 401 or 403 and response status 200 is a CRITICAL bypass,
\* also when the size delta exceeds 10% of the baseline size.
C2_AuthBypassCritical ==
    (Called /\ Rule2Applies) =>
        (last_out.bypass = TRUE /\ last_out.severity = "CRITICAL")

C2_Witness ==
    /\ Called
    /\ _baseline_status = 401 /\ _baseline_size = 512
    /\ last_response.status_code = 200 /\ last_response.content.len = 2600
    /\ DeltaOver10Percent
    /\ last_out.severity = "CRITICAL"

\* C3: for a response with status < 400 that rule 2 does not match, a size delta
\* of more than 10% of a non-zero baseline size gives HIGH "Content difference"
\* carrying the byte delta and the percentage to one decimal, whatever the hash;
\* "hash mismatch" is returned only when the delta is not over 10%.
C3_SizeRuleBeforeHashRule ==
    (Called /\ _baseline_size # NoneSize /\ last_response.status_code < 400
            /\ ~Rule2Applies) =>
        /\ DeltaOver10Percent =>
              /\ last_out.bypass = TRUE /\ last_out.severity = "HIGH"
              /\ last_out.reason.text = "Content difference"
              /\ last_out.reason.n1 = SizeDelta
              /\ 2 * abs(last_out.reason.n2 * _baseline_size - SizeDelta * 1000)
                    <= _baseline_size
        /\ last_out.reason.text = "Different content returned (hash mismatch)" =>
              ~DeltaOver10Percent

C3_Witness ==
    /\ Called
    /\ _baseline_status = 200 /\ _baseline_size = 1000 /\ _baseline_hash = "H0"
    /\ last_response.status_code = 200
    /\ last_response.content.len = 1300 /\ last_response.content.digest = "H0"
    /\ last_out.reason = Reason("Content difference", 300, 300, "")
    /\ last_out.severity = "HIGH"

\* Rules 1-4 do not match the last response.
Rules1to4Miss ==
    /\ Called /\ _baseline_size # NoneSize
    /\ last_response.status_code < 400
    /\ ~Rule2Applies
    /\ ~DeltaOver10Percent
    /\ ~(last_response.content.digest # _baseline_hash /\ SizeDelta > 100)

\* The indices of the substrings of `order` that the lower-cased body contains.
FoundIn(order) ==
    {i \in 1..Len(order) : In(order[i][1], lower(last_response.content.text))}

\* The result is that of the first substring of `order` the body contains.
ReportsFirstOf(order) ==
    LET first == CHOOSE i \in FoundIn(order) : \A j \in FoundIn(order) : i <= j
    IN  /\ last_out.bypass = TRUE
        /\ last_out.reason = Reason("Backend exposed", 0, 0, order[first][1])
        /\ last_out.severity = order[first][2]

FoundSeverities == {error_indicators_by_severity[i][2] : i \in FoundIn(error_indicators_by_severity)}

\* C4 as stated: with rules 1-4 not matching and several substrings in the body,
\* the result is that of the first in the order CRITICAL, HIGH, MEDIUM, so a body
\* with a HIGH and a MEDIUM substring and no CRITICAL one is reported HIGH.
C4_SeverityGroupedOrder ==
    (Rules1to4Miss /\ Cardinality(FoundIn(error_indicators_by_severity)) > 1) =>
        /\ ReportsFirstOf(error_indicators_by_severity)
        /\ ("HIGH" \in FoundSeverities /\ "CRITICAL" \notin FoundSeverities) =>
              last_out.severity = "HIGH"

\* The order of the source list: 'debug mode' and 'fatal error' come after the
\* four server-banner substrings.
SourceOrder ==
    << <<"exception", "CRITICAL">>, <<"traceback", "CRITICAL">>,
       <<"stack trace", "CRITICAL">>, <<"sql syntax", "CRITICAL">>,
       <<"mysql_", "CRITICAL">>, <<"postgresql", "CRITICAL">>,
       <<"ora-", "CRITICAL">>,
       <<"internal server error", "HIGH">>, <<"500 internal", "HIGH">>,
       <<"apache/", "MEDIUM">>, <<"nginx/", "MEDIUM">>,
       <<"iis/", "MEDIUM">>, <<"tomcat/", "MEDIUM">>,
       <<"debug mode", "HIGH">>, <<"fatal error", "HIGH">>,
       <<"warning:", "MEDIUM">> >>

\* C4, amended: with rules 1-4 not matching and several substrings in the body,
\* the result is that of the first in the source order (CRITICAL x7, 'internal
\* server error', '500 internal', 'apache/', 'nginx/', 'iis/', 'tomcat/',
\* 'debug mode', 'fatal error', 'warning:'); a body whose first substring is a
\* server banner is reported MEDIUM even if it has 'debug mode' or 'fatal error'.
C4_SourceOrder ==
    (Rules1to4Miss /\ Cardinality(FoundIn(SourceOrder)) > 1) =>
        /\ ReportsFirstOf(SourceOrder)
        /\ (FoundIn(SourceOrder) \subseteq 10..16 /\ FoundIn(SourceOrder) \cap 10..13 # {}) =>
              last_out.severity = "MEDIUM"

C4_Witness ==
    /\ Rules1to4Miss
    /\ last_response.content.text = "DEBUG MODE on Apache/2.4"
    /\ last_out.bypass = TRUE
    /\ last_out.reason.s = "apache/"
    /\ last_out.severity = "MEDIUM"

\* The baseline snapshot's value of a header, whatever case the origin used.
BaselineHeader(name) == ci_get(_baseline_headers, name, "")

\* C5: rule 6 fires only if the response's Server header names a backend that
\* the baseline's Server header does not, and rule 7 only if X-Powered-By is in
\* the response and not in the baseline, whatever the case of the header names;
\* a response with the baseline's Server and X-Powered-By matches neither.
C5_HeaderRulesOnlyOnNewHeaders ==
    Called =>
        /\ last_out.reason.text = "Backend server exposed" =>
              \E backend \in {"apache", "nginx", "iis", "tomcat", "jetty", "gunicorn", "uwsgi"} :
                 /\ In(backend, lower(ci_get(last_response.headers, "server", "")))
                 /\ ~In(backend, lower(BaselineHeader("server")))
        /\ last_out.reason.text = "Backend tech exposed" =>
              /\ ci_contains(last_response.headers, "x-powered-by")
              /\ ~ci_contains(_baseline_headers, "x-powered-by")

\* C6 (its "only if" half and its last sentence): when no earlier rule matches
\* and the status is 301, 302, 307 or 308, the result is a MEDIUM bypass only if
\* the response's Location differs from the baseline's (a missing Location
\* counting as empty); a redirect with the baseline's Location is not-bypass, INFO.
C6_RedirectOnlyIfLocationDiffers ==
    (/\ Called /\ _baseline_size # NoneSize
     /\ last_response.status_code \in {301, 302, 307, 308}
     /\ last_out.reason.text \in {"Different redirect", "Response identical to baseline"}) =>
        LET differs == ci_get(last_response.headers, "location", "") # BaselineHeader("location")
        IN  /\ (last_out.bypass = TRUE /\ last_out.severity = "MEDIUM") => differs
            /\ ~differs => (last_out.bypass = FALSE /\ last_out.severity = "INFO")

-----------------------------------------------------------------------------
(* Properties of scan(), checked under Spec.                               *)

Severities == {"CRITICAL", "HIGH", "MEDIUM", "INFO"}

\* A verdict or result dict: bypass, reason, severity.
WellFormed(v) ==
    /\ v.severity \in Severities
    /\ v.bypass = TRUE => v.reason.text # ""

AllOf(list, P(_)) == \A i \in 1..Len(list) : P(list[i])

\* C8: every classification result, and every result in a technique's list
\* and in the list scan() returns, has a severity among CRITICAL, HIGH, MEDIUM
\* and INFO, and a non-empty reason whenever bypass is true.
C8_SeverityAndReasonWellFormed ==
    /\ \A response \in ProbeResponses : WellFormed(_is_bypass(response))
    /\ \A t \in Submitted :
          /\ AllOf(tasks[t].local, WellFormed)
          /\ tasks[t].state = "sleeping" => WellFormed(_is_bypass(tasks[t].resp))
    /\ AllOf(results, WellFormed)

C8_Witness ==
    /\ pc = "returned"
    /\ Len(results) >= 2
    /\ results[1].severity = "CRITICAL"
    /\ results[1].reason.text = "Backend exposed"
    /\ results[2].severity = "CRITICAL"

IsPositive(result) == result.bypass = TRUE

\* C9: every element of the list scan() returns has bypass = true: a variant
\* that got a response is classified, and its result joins the technique's
\* list exactly when bypass is true; no result with bypass = false is in a
\* technique's list or in the session's results.
C9_OnlyPositivesRetained ==
    [][/\ AllOf(results', IsPositive)
       /\ \A t \in Submitted :
             /\ AllOf(tasks'[t].local, IsPositive)
             /\ (tasks[t].state = "sleeping" /\ tasks'[t] # tasks[t]) =>
                   LET out == _is_bypass(tasks[t].resp)
                       result == ProbeResult(t, tasks[t].i + 1, tasks[t].resp, out)
                   IN  tasks'[t].local = IF out.bypass THEN Append(tasks[t].local, result)
                                         ELSE tasks[t].local]_vars

C9_Witness ==
    /\ pc = "returned"
    /\ probes = Cardinality(Submitted) * MaxVariants
    /\ Len(results) = 1
    /\ results[1].status = 200
    /\ results[1].variant = MaxVariants

FinalAttemptFailed == pc = "raised" /\ attempt = max_retries

NothingSubmitted == \A t \in Submitted : tasks[t] = IdleTask

\* C10 as stated: when the baseline request still fails after its final
\* attempt, scan() raises BaselineFailedError, no technique task is submitted
\* and no probe request is issued.
C10_FinalFailureRaisesBaselineFailed ==
    FinalAttemptFailed =>
        /\ raised = "BaselineFailedError"
        /\ NothingSubmitted
        /\ probes = 0

\* C10: when the baseline request still fails after its final attempt, scan()
\* raises TargetUnreachableError if that failure is an unreachable target (a
\* refused connection) and BaselineFailedError for any other failure; either
\* way no technique task is submitted and no probe request is issued.
C10_FinalFailureRaises ==
    FinalAttemptFailed =>
        /\ raised = IF last_exception = "TargetUnreachableError"
                    THEN "TargetUnreachableError"
                    ELSE "BaselineFailedError"
        /\ NothingSubmitted
        /\ probes = 0

C10_Witness ==
    /\ FinalAttemptFailed
    /\ last_exception = "TargetUnreachableError"
    /\ raised = "TargetUnreachableError"
    /\ NothingSubmitted

-----------------------------------------------------------------------------
(* Properties of the retry wrapper, checked on the baseline request of     *)
(* scan() under Spec.                                                      *)

\* The attempt in progress failed: the wrapper counts one more attempt made.
AttemptFails == pc = "baseline" /\ attempt' = attempt + 1

\* The attempt in progress returned a response to the wrapper.
AttemptSucceeds == pc = "baseline" /\ attempt' # attempt + 1 /\ pc' # "baseline"

\* What scan() holds once the wrapper returned `baseline` to it.
GotBaseline(baseline) ==
    IF baseline.status_code < 400
    THEN /\ pc' = "collect"
         /\ _baseline_size' = baseline.content.len
         /\ _baseline_hash' = baseline.content.digest
         /\ _baseline_status' = baseline.status_code
    ELSE pc' = "raised" /\ raised' = "BaselineFailedError"

\* C11: when the wrapped function fails with a retryable exception on its
\* first k calls (k < max_retries) and then succeeds, the wrapper returns the
\* success value after exactly k + 1 invocations, having waited
\* backoff_factor * 2^i after the i-th failure (i = 0 .. k-1).
C11_RetryThenSuccess ==
    [][/\ pc = "baseline" => attempt < max_retries
       /\ (AttemptFails /\ attempt + 1 < max_retries) =>
             /\ pc' = "backoff"
             /\ wait_time' = backoff_factor * 2^attempt
       /\ pc = "backoff" =>
             /\ pc' = "baseline"
             /\ attempt' = attempt
       /\ AttemptSucceeds =>
             /\ pc' # "backoff"
             /\ \E baseline \in ScanBaselines : GotBaseline(baseline)
             /\ wait_time' = 0]_vars

C11_Witness ==
    /\ pc = "backoff"
    /\ attempt = 2
    /\ wait_time = 2 * backoff_factor

RetryableKinds == {"TargetUnreachableError", "DNSResolutionError", "RequestTimeoutError"}

\* C12: when the wrapped function raises a retryable exception on every call,
\* the wrapper invokes it exactly max_retries times, waits
\* backoff_factor * 2^attempt only between attempts and never after the last
\* one, and then re-raises the exception of the final attempt; for the
\* baseline request that is 3 attempts separated by waits of 0.5 s and 1.0 s.
C12_RetryExhausted ==
    /\ [](attempt <= max_retries)
    /\ [](pc = "backoff" =>
            /\ attempt \in 1..(max_retries - 1)
            /\ attempt = 1 => wait_time = 500
            /\ attempt = 2 => wait_time = 1000)
    /\ []((pc = "raised" /\ attempt = max_retries) =>
            /\ max_retries = 3
            /\ wait_time = 0
            /\ last_exception \in RetryableKinds)
    /\ [][(AttemptFails /\ attempt + 1 = max_retries) =>
            /\ pc' = "raised"
            /\ wait_time' = wait_time
            /\ last_exception' \in RetryableKinds
            /\ raised' \in {last_exception', "BaselineFailedError"}]_vars

C12_Witness ==
    /\ pc = "raised"
    /\ attempt = max_retries
    /\ last_exception = "RequestTimeoutError"
    /\ wait_time = 0
    /\ probes = 0

-----------------------------------------------------------------------------
(* Properties of the probes of a technique task, checked under Spec.       *)

\* The request of task t's current variant fails in this step.
RequestFails(t) == tasks[t].state = "running" /\ tasks'[t].state = "skipping"

SkipEnds(t) == tasks[t].state = "skipping" /\ tasks'[t] # tasks[t]

\* C14: a variant whose request fails produces no result and raises nothing
\* out of its technique task: the task goes on with its remaining variants,
\* the other tasks are untouched, and scan() returns normally, every technique
\* having tried all its variants.
C14_ProbeFailureIsolated ==
    /\ [][\A t \in Submitted : (RequestFails(t) \/ SkipEnds(t)) =>
             /\ tasks'[t].local = tasks[t].local
             /\ results' = results
             /\ pc' = pc
             /\ raised' = raised
             /\ \A u \in Submitted \ {t} : tasks'[u] = tasks[u]
             /\ SkipEnds(t) =>
                   tasks'[t].state = IF tasks[t].i + 1 < Variants(t) THEN "running" ELSE "done"]_vars
    /\ [](pc = "returned" =>
             /\ raised = "None"
             /\ \A t \in Submitted : tasks[t].i = Variants(t))
    /\ []((probes > 0 /\ raised # "None") => raised = "ScanInterruptedError")

C14_Witness ==
    /\ tasks[1].state = "skipping"
    /\ tasks[1].i = 1
    /\ Len(tasks[1].local) = 1
    /\ tasks[2].state = "collected"
    /\ Len(results) = 2

\* C15 as stated: every variant skipped for a failed request adds one to the
\* error counter of scan(), so that the counter ends as the number of skipped
\* variants.
C15_SkipCountsAsError ==
    [][\A t \in Submitted : RequestFails(t) => error_count' = error_count + 1]_vars

-----------------------------------------------------------------------------
(* Properties of the worker pool of scan(), checked under Spec.            *)

Active == {"running", "sleeping", "skipping"}

\* C16: for any pool size >= 1, also one smaller than the number of
\* techniques, every technique is submitted once and run once, from its first
\* variant to its last, never more tasks run than the pool has workers, and
\* scan() returns only when every technique task has completed.
C16_EachTechniqueOnce ==
    /\ [][\A t \in Submitted :
             /\ (tasks'[t].state = "pending" /\ tasks[t].state # "pending") =>
                   /\ pc = "baseline"
                   /\ \A u \in Submitted : tasks[u].state = "idle" /\ tasks'[u].state = "pending"
             /\ (tasks'[t].state \in Active /\ tasks[t].state \notin Active) =>
                   /\ tasks[t].state = "pending"
                   /\ tasks'[t].i = 0
             /\ tasks[t].state \in {"done", "collected"} =>
                   tasks'[t].state \in {"done", "collected"}
             /\ tasks'[t].i \in {tasks[t].i, tasks[t].i + 1}]_vars
    /\ [](Cardinality({t \in Submitted : tasks[t].state \in Active}) <= threads)
    /\ [](pc = "returned" =>
             \A t \in Submitted :
                /\ tasks[t].state = "collected"
                /\ tasks[t].i = Variants(t))

C16_Witness ==
    /\ pc = "returned"
    /\ threads = 1
    /\ threads < Cardinality(Submitted)
    /\ \A t \in Submitted : tasks[t].state = "collected" /\ tasks[t].i = Variants(t)
    /\ Len(results) = 0

\* Task t issues the request of its current variant in this step.
Requests(t) == tasks[t].state = "running" /\ tasks'[t] # tasks[t]

\* C17 as stated: within a technique task the variants are requested one at
\* a time in list order, and every variant's request is followed by a sleep of
\* `delay` before the task issues its next request.
C17_SleepAfterEveryVariant ==
    [][\A t \in Submitted :
          /\ tasks'[t].i \in {tasks[t].i, tasks[t].i + 1}
          /\ Requests(t) => tasks'[t].state = "sleeping"]_vars

\* A stop has been requested: the user's interrupt has reached scan().
StopRequested == pc = "interrupted"

\* C18 as stated: once a stop is requested no technique task that has not
\* started is run, and a running task issues no request for a further
\* variant: it ends with the variant it is executing.
C18_StopEndsTasks ==
    [][StopRequested =>
          \A t \in Submitted :
             /\ tasks[t].state = "pending" => tasks'[t].state = "pending"
             /\ tasks'[t].i = tasks[t].i + 1 => tasks'[t].state = "done"]_vars

\* How often x occurs in a list.
Count(list, x) == Cardinality({i \in 1..Len(list) : list[i] = x})

Range(list) == {list[i] : i \in 1..Len(list)}

\* How often x occurs in the lists of all technique tasks together.
RECURSIVE CountInTasks(_, _)
CountInTasks(n, x) ==
    IF n = 0 THEN 0 ELSE Count(tasks[n].local, x) + CountInTasks(n - 1, x)

AllPositives == UNION {Range(tasks[t].local) : t \in Submitted}

\* results changes in this step only as the extend of one completed task.
ResultsExtendedByScan ==
    results' # results =>
        \E t \in Submitted :
           /\ pc = "collect"
           /\ tasks[t].state = "done"
           /\ tasks'[t].state = "collected"
           /\ results' = results \o tasks[t].local
           /\ \A u \in Submitted \ {t} : tasks'[u] = tasks[u]

\* A task's list changes in this step only as that task's own append.
LocalAppendedByOwner ==
    \A t \in Submitted :
       tasks'[t].local # tasks[t].local =>
          /\ tasks[t].state = "sleeping"
          /\ Len(tasks'[t].local) = Len(tasks[t].local) + 1
          /\ SubSeq(tasks'[t].local, 1, Len(tasks[t].local)) = tasks[t].local
          /\ results' = results
          /\ \A u \in Submitted \ {t} : tasks'[u] = tasks[u]

\* C19: the results list is never written by two threads at once: a technique
\* task appends to its own list only, and results changes only when the
\* thread in scan() extends it with the list of one completed task.  The list
\* scan() returns is the multiset union of the tasks' lists, nothing lost and
\* nothing duplicated.
C19_ResultsSingleWriter ==
    /\ [][ResultsExtendedByScan /\ LocalAppendedByOwner]_vars
    /\ [](pc = "returned" =>
             \A x \in AllPositives \cup Range(results) :
                Count(results, x) = CountInTasks(Cardinality(Submitted), x))

\* A returned list in which the second technique's result precedes the first's.
C19_Witness ==
    /\ pc = "returned"
    /\ Len(results) = 2
    /\ results[1].technique = techniques[2].name
    /\ results[2].technique = techniques[1].name

BaselineSet ==
    /\ _baseline_size # NoneSize
    /\ _baseline_hash # "None"
    /\ _baseline_status # NoneStatus

\* C20: within a scan() call the baseline status, size, hash and headers are
\* written once, before any technique task is submitted, and never while a
\* task exists; so every probe is classified against a baseline that is set.
C20_BaselineWrittenOnceBeforeTasks ==
    /\ [][baseline_vars' # baseline_vars =>
             /\ pc = "baseline"
             /\ pc' = "collect"
             /\ ~BaselineSet
             /\ BaselineSet'
             /\ \A t \in Submitted : tasks[t].state = "idle"]_vars
    /\ [](\A t \in Submitted :
             /\ tasks[t].state # "idle" => BaselineSet
             /\ tasks[t].state = "sleeping" =>
                   _is_bypass(tasks[t].resp).reason.text # "No baseline")

C20_Witness ==
    /\ tasks[1].state = "collected"
    /\ tasks[2].state = "sleeping"
    /\ tasks[2].i = 1
    /\ _baseline_size = 1000
    /\ _baseline_status = 200
    /\ probes = 2 * MaxVariants

-----------------------------------------------------------------------------
(* The classifier against an empty baseline body, checked under            *)
(* SpecClassify.                                                           *)

SizeReasons == {"Content difference", "Different content returned (hash mismatch)"}

\* C30: with an empty baseline body (size 0) the size-change percentage is 0
\* and rule 3 never fires; a response with status < 400 that rule 2 does not
\* match is flagged on size grounds by rule 4 only, exactly when its hash
\* differs and it has more than 100 bytes, so a response of at most 100 bytes
\* is flagged by neither rule.
C30_EmptyBaselineNoPercentRule ==
    (Called /\ _baseline_size = 0 /\ last_response.status_code < 400) =>
        /\ last_out.reason.text # "Content difference"
        /\ last_out.severity \in Severities
        /\ ~Rule2Applies =>
              (last_out.reason.text = "Different content returned (hash mismatch)"
                 <=> (last_response.content.digest # _baseline_hash
                        /\ last_response.content.len > 100))
        /\ last_response.content.len <= 100 => last_out.reason.text \notin SizeReasons

C30_Witness ==
    /\ Called
    /\ _baseline_size = 0 /\ _baseline_status = 200
    /\ last_response.status_code = 200
    /\ last_response.content.len = 90 /\ last_response.content.digest = "H1"
    /\ last_response.content.text = ""
    /\ last_out.bypass = FALSE

-----------------------------------------------------------------------------
(* The technique catalog, checked under Spec.                              *)

VariantCounts == {techniques[t].variants : t \in 1..Len(techniques)}

\* The requests task t has issued: one for each variant it is done with and
\* one for the variant it is sleeping after or skipping.
RequestsOf(t) ==
    tasks[t].i + (IF tasks[t].state \in {"sleeping", "skipping"} THEN 1 ELSE 0)

RECURSIVE RequestsOfFirst(_)
RequestsOfFirst(n) == IF n = 0 THEN 0 ELSE RequestsOf(n) + RequestsOfFirst(n - 1)

-----------------------------------------------------------------------------
(* The baseline scan() accepts, checked under Spec.                        *)

\* C26 as stated: a baseline response, with status 401 or 403 too, passes the
\* usability check of scan(): its status, size and hash are recorded and the
\* techniques are submitted.
C26_AuthBaselineAccepted ==
    [][AttemptSucceeds =>
          \E baseline \in ScanBaselines :
             /\ pc' = "collect"
             /\ _baseline_status' = baseline.status_code
             /\ _baseline_size' = baseline.content.len
             /\ _baseline_hash' = baseline.content.digest
             /\ \A t \in Submitted : tasks'[t].state = "pending"]_vars

-----------------------------------------------------------------------------
(* CloudFrontBypasser(target, threads, delay, timeout): __init__ with       *)
(* _validate_inputs and validate_url.                                      *)

\* urllib.parse.urlparse on the targets of the model: scheme (lower-cased)
\* and netloc.
urlparse(url) ==
    CASE url = "https://example.com" -> [scheme |-> "https", netloc |-> "example.com"]
      [] url = "http://example.com/" -> [scheme |-> "http", netloc |-> "example.com"]
      [] url = "http://example.com" -> [scheme |-> "http", netloc |-> "example.com"]
      [] url = "HTTPS://example.com" -> [scheme |-> "https", netloc |-> "example.com"]
      [] url = "ftp://example.com" -> [scheme |-> "ftp", netloc |-> "example.com"]
      [] url = "//example.com" -> [scheme |-> "", netloc |-> "example.com"]
      [] url = "https://" -> [scheme |-> "https", netloc |-> ""]
      [] url = "https:" -> [scheme |-> "https", netloc |-> ""]
      [] url = "file:///etc/passwd" -> [scheme |-> "file", netloc |-> ""]
      [] OTHER -> [scheme |-> "", netloc |-> ""]

\* target.rstrip('/')
rstrip(url) ==
    CASE url = "http://example.com/" -> "http://example.com"
      [] url = "https://" -> "https:"
      [] OTHER -> url

\* validate_url(url): is_valid.
validate_url(url) ==
    LET parsed == urlparse(url)
    IN  IF parsed.scheme = "" THEN FALSE
        ELSE IF parsed.scheme \notin {"http", "https"} THEN FALSE
        ELSE IF parsed.netloc = "" THEN FALSE
        ELSE TRUE

\* isinstance(x, int) and isinstance(x, (int, float)).
IsInt(x) == x.type = "int"

IsNumber(x) == x.type \in {"int", "float"}

\* _validate_inputs: the class of the exception it raises, "None" if none.
_validate_inputs_timeout_first(target, n, delay, timeout) ==
    IF ~validate_url(target) THEN "InvalidTargetError"
    ELSE IF urlparse(target).scheme \notin {"http", "https"} THEN "InvalidSchemeError"
    ELSE IF ~IsNumber(timeout) \/ timeout.v <= 0 THEN "InvalidTimeoutError"
    ELSE IF ~IsInt(n) \/ n.v <= 0 THEN "InvalidThreadCountError"
    ELSE IF ~IsNumber(delay) \/ delay.v < 0 THEN "InvalidDelayError"
    ELSE "None"

_validate_inputs(target, n, delay, timeout) ==
    IF ~validate_url(target) THEN "InvalidTargetError"
    ELSE IF urlparse(target).scheme \notin {"http", "https"} THEN "InvalidSchemeError"
    ELSE IF ~IsInt(n) \/ n.v <= 0 THEN "InvalidThreadCountError"
    ELSE IF ~IsNumber(delay) \/ delay.v < 0 THEN "InvalidDelayError"
    ELSE IF ~IsNumber(timeout) \/ timeout.v <= 0 THEN "InvalidTimeoutError"
    ELSE "None"

\* An object on which __init__ has assigned nothing yet.
Unconstructed ==
    /\ NoBaseline
    /\ results = <<>>
    /\ threads = NoThreads
    /\ attempt = 0
    /\ last_exception = "None"
    /\ wait_time = 0
    /\ tasks = [t \in Submitted |-> IdleTask]
    /\ error_count = 0
    /\ probes = 0
    /\ calls = 0
    /\ bypass_result = NoCall

\* __init__: validation first; only then the fields are assigned and the
\* target, stripped of trailing slashes, is parsed for its domain.
Construct ==
    /\ pc = "new"
    /\ LET e == _validate_inputs(args.target, args.threads, args.delay, args.timeout)
       IN  IF e # "None"
           THEN /\ pc' = "raised"
                /\ raised' = e
                /\ UNCHANGED <<baseline_vars, results, threads>>
           ELSE /\ threads' = args.threads.v
                /\ results' = <<>>
                /\ _baseline_size' = NoneSize
                /\ _baseline_hash' = "None"
                /\ _baseline_status' = NoneStatus
                /\ _baseline_headers' = NoHeaders
                /\ IF urlparse(rstrip(args.target)).netloc = ""
                   THEN pc' = "raised" /\ raised' = "InvalidTargetError"
                   ELSE pc' = "constructed" /\ raised' = raised
    /\ UNCHANGED <<calls, bypass_result, attempt, last_exception, wait_time, tasks,
                   error_count, probes, caller_vars>>

\* The arguments a caller may pass.
Targets ==
    {"https://example.com", "http://example.com/", "HTTPS://example.com",
     "ftp://example.com", "file:///etc/passwd", "//example.com", "example.com",
     "https://", ""}

ThreadArgs == {PyInt(-1), PyInt(0), PyInt(1), PyInt(MaxThreads), PyFloat(1), PyStr}

DelayArgs == {PyFloat(-100), PyInt(0), PyFloat(200), PyStr}

TimeoutArgs == {PyInt(-1), PyInt(0), PyInt(5), PyFloat(2), PyStr}

InitConstruct ==
    /\ pc = "new"
    /\ Unconstructed
    /\ raised = "None"
    /\ exit_code = NoExit
    /\ wrapped = NoWrapper
    /\ \E target \in Targets, n \in ThreadArgs, delay \in DelayArgs, timeout \in TimeoutArgs :
          args = Args(target, n, delay, timeout)

NextConstruct == Construct

SpecConstruct == InitConstruct /\ [][NextConstruct]_vars

-----------------------------------------------------------------------------
(* Properties of construction, checked under SpecConstruct.                *)

SchemeOf(a) == urlparse(a.target).scheme

HostOf(a) == urlparse(a.target).netloc

\* C21 as stated: a target whose scheme is neither http nor https is refused
\* with InvalidSchemeError, and a target with a good scheme but no host with
\* InvalidTargetError.
C21_BadSchemeRaisesInvalidScheme ==
    pc # "new" =>
        /\ SchemeOf(args) \notin {"", "http", "https"} =>
               pc = "raised" /\ raised = "InvalidSchemeError"
        /\ SchemeOf(args) \in {"http", "https"} /\ HostOf(args) = "" =>
               pc = "raised" /\ raised = "InvalidTargetError"

TargetOk(a) == SchemeOf(a) \in {"http", "https"} /\ HostOf(a) # ""

ThreadsOk(a) == a.threads.type = "int" /\ a.threads.v > 0

DelayOk(a) == a.delay.type \in {"int", "float"} /\ a.delay.v >= 0

TimeoutOk(a) == a.timeout.type \in {"int", "float"} /\ a.timeout.v > 0

\* The error the first invalid argument, in the order target, threads, delay,
\* timeout, calls for; a bad target calls for one of the two target errors.
FirstInvalid(a) ==
    IF ~TargetOk(a) THEN {"InvalidTargetError", "InvalidSchemeError"}
    ELSE IF ~ThreadsOk(a) THEN {"InvalidThreadCountError"}
    ELSE IF ~DelayOk(a) THEN {"InvalidDelayError"}
    ELSE IF ~TimeoutOk(a) THEN {"InvalidTimeoutError"}
    ELSE {"None"}

\* C22: construction with an invalid argument fails before any request is
\* sent and before any field of the scanner is set; a thread count that is not
\* a positive integer gives InvalidThreadCountError, a negative delay
\* InvalidDelayError, a non-positive timeout InvalidTimeoutError, and among
\* several invalid arguments the first in the order target, threads, delay,
\* timeout decides; valid arguments give a scanner with its fields set.
C22_ConstructionFailsFast ==
    pc # "new" =>
        /\ raised \in FirstInvalid(args)
        /\ raised # "None" => pc = "raised" /\ Unconstructed
        /\ raised = "None" =>
              /\ pc = "constructed"
              /\ threads = args.threads.v /\ threads > 0
              /\ NoBaseline /\ results = <<>> /\ probes = 0

C22_Witness ==
    /\ pc = "raised"
    /\ raised = "InvalidThreadCountError"
    /\ TargetOk(args) /\ ~ThreadsOk(args) /\ ~DelayOk(args) /\ ~TimeoutOk(args)
    /\ Unconstructed

-----------------------------------------------------------------------------
(* main(): construct the scanner, scan, and exit with a status.             *)

\* The except clauses of main(), in their order: the status passed to sys.exit
\* for an exception of class `kind`.
ExitCode_unreachable_as_baseline(kind) ==
    IF IsA(kind, "InvalidTargetError") THEN 2
    ELSE IF IsA(kind, "BaselineFailedError") \/ IsA(kind, "TargetUnreachableError") THEN 3
    ELSE IF IsA(kind, "ScanInterruptedError") THEN 130
    ELSE IF kind = "KeyboardInterrupt" THEN 130
    ELSE 1

ExitCode(kind) ==
    IF IsA(kind, "InvalidTargetError") THEN 2
    ELSE IF IsA(kind, "BaselineFailedError") THEN 3
    ELSE IF IsA(kind, "TargetUnreachableError") THEN 4
    ELSE IF IsA(kind, "ScanInterruptedError") THEN 130
    ELSE IF kind = "KeyboardInterrupt" THEN 130
    ELSE 1

\* main() ends: sys.exit(0 if len(results) == 0 else 1) after scan() returned
\* its list, the status of the matching except clause after an exception.
MainExit ==
    /\ pc \in {"returned", "raised"}
    /\ pc' = "exited"
    /\ exit_code' = IF pc = "returned"
                    THEN (IF Len(results) = 0 THEN 0 ELSE 1)
                    ELSE ExitCode(raised)
    /\ UNCHANGED <<baseline_vars, results, calls, bypass_result, threads, attempt,
                   last_exception, wait_time, raised, tasks, error_count, probes,
                   args, wrapped>>

\* Ctrl+C while scan() establishes the baseline: KeyboardInterrupt is no
\* Exception, so neither the retry wrapper nor the except clauses of scan()
\* catch it and it reaches main().
KeyboardInterrupt ==
    /\ pc \in {"baseline", "backoff"}
    /\ pc' = "raised"
    /\ raised' = "KeyboardInterrupt"
    /\ UNCHANGED <<baseline_vars, results, calls, bypass_result, caller_vars, threads,
                   attempt, last_exception, wait_time, tasks, error_count, probes>>

\* The command lines of the model: argparse makes threads an int, delay a
\* float and timeout an int.
MainArgs ==
    {Args(target, PyInt(n), PyFloat(200), PyInt(5)) :
        target \in {"https://example.com"}, n \in 0..MaxThreads}
    \cup {Args("ftp://example.com", PyInt(1), PyFloat(200), PyInt(5))}

InitMain ==
    /\ pc = "new"
    /\ Unconstructed
    /\ raised = "None"
    /\ exit_code = NoExit
    /\ wrapped = NoWrapper
    /\ args \in MainArgs

NextMain ==
    \/ Construct
    \/ Next
    \/ KeyboardInterrupt
    \/ MainExit

SpecMain == InitMain /\ [][NextMain]_vars

-----------------------------------------------------------------------------
(* Properties of main(), checked under SpecMain.                           *)

-----------------------------------------------------------------------------
(* retry_on_network_error(max_retries, backoff_factor, exceptions): the     *)
(* wrapper around any function.                                            *)

\* The largest max_retries a decorator of the model is given.
MaxRetriesArg == 3

\* `except exceptions as e`: does the clause catch an exception of class kind?
Retryable_any(kind, exceptions) == TRUE

Retryable(kind, exceptions) == \E cls \in exceptions : IsA(kind, cls)

\* `for attempt in range(max_retries)`: is there an iteration number a?
LoopRuns_at_least_once(a, n) == a < n \/ a = 0

LoopRuns(a, n) == a < n

\* `raise last_exception`: raising None is a TypeError.
RaiseOf(e) == IF e = "None" THEN "TypeError" ELSE e

\* What the wrapped function may raise.
FuncExceptions ==
    {"TargetUnreachableError", "RequestTimeoutError", "SSLError", "DNSResolutionError",
     "TooManyRedirectsError", "ProxyError", "RateLimitError", "NetworkError",
     "InvalidTargetError", "BaselineFailedError", "ValueError"}

\* The `exceptions` argument: the default and a wider one.
RetryableSets == {{"NetworkError"}, {"NetworkError", "ScanError"}}

\* The wrapper is called: last_exception = None, and the loop is entered.
InitRetry ==
    /\ pc = "wrapper"
    /\ Unconstructed
    /\ raised = "None"
    /\ exit_code = NoExit
    /\ args = Args("", PyInt(0), PyInt(0), PyInt(0))
    /\ \E n \in (0 - 1)..MaxRetriesArg, b \in {backoff_factor, 2 * backoff_factor},
          x \in RetryableSets :
          wrapped = Wrapper(n, b, x, 0)

\* An iteration whose call func(*args, **kwargs) returns: the wrapper returns.
FuncReturns ==
    /\ pc = "wrapper"
    /\ LoopRuns(attempt, wrapped.max_retries)
    /\ pc' = "wrapper_returned"
    /\ wrapped' = [wrapped EXCEPT !.invoked = @ + 1]
    /\ UNCHANGED <<baseline_vars, results, calls, bypass_result, threads, attempt,
                   last_exception, wait_time, raised, tasks, error_count, probes,
                   args, exit_code>>

\* An iteration whose call raises: the exception is in flight at the except
\* clause.
FuncRaises ==
    /\ pc = "wrapper"
    /\ LoopRuns(attempt, wrapped.max_retries)
    /\ pc' = "wrapper_except"
    /\ raised' \in FuncExceptions
    /\ wrapped' = [wrapped EXCEPT !.invoked = @ + 1]
    /\ UNCHANGED <<baseline_vars, results, calls, bypass_result, threads, attempt,
                   last_exception, wait_time, tasks, error_count, probes,
                   args, exit_code>>

\* The except clause: a retryable exception is recorded and, if an iteration
\* is left, the wrapper sleeps its back-off; any other exception leaves the
\* wrapper.
WrapperExcept ==
    /\ pc = "wrapper_except"
    /\ IF Retryable(raised, wrapped.exceptions)
       THEN /\ last_exception' = raised
            /\ raised' = "None"
            /\ attempt' = attempt + 1
            /\ IF MoreAttempts(attempt, wrapped.max_retries)
               THEN /\ pc' = "wrapper_sleep"
                    /\ wait_time' = wait_time_of(wrapped.backoff_factor, attempt)
               ELSE /\ pc' = "wrapper"
                    /\ wait_time' = wait_time
       ELSE /\ pc' = "wrapper_raised"
            /\ UNCHANGED <<raised, last_exception, attempt, wait_time>>
    /\ UNCHANGED <<baseline_vars, results, calls, bypass_result, threads, tasks,
                   error_count, probes, caller_vars>>

\* time.sleep(wait_time) is over: the next iteration.
WrapperSleepDone ==
    /\ pc = "wrapper_sleep"
    /\ pc' = "wrapper"
    /\ wait_time' = 0
    /\ UNCHANGED <<baseline_vars, results, calls, bypass_result, threads, attempt,
                   last_exception, raised, tasks, error_count, probes, caller_vars>>

\* The loop has no iteration left: raise last_exception.
WrapperExhausted ==
    /\ pc = "wrapper"
    /\ ~LoopRuns(attempt, wrapped.max_retries)
    /\ pc' = "wrapper_raised"
    /\ raised' = RaiseOf(last_exception)
    /\ UNCHANGED <<baseline_vars, results, calls, bypass_result, threads, attempt,
                   last_exception, wait_time, tasks, error_count, probes, caller_vars>>

NextRetry ==
    \/ FuncReturns
    \/ FuncRaises
    \/ WrapperExcept
    \/ WrapperSleepDone
    \/ WrapperExhausted

SpecRetry == InitRetry /\ [][NextRetry]_vars

-----------------------------------------------------------------------------
(* Properties of the retry wrapper, checked under SpecRetry.               *)

DefaultRetryable == wrapped.exceptions = {"NetworkError"}

\* The wrapper goes on to retry the exception in flight: it records it and,
\* if an attempt is left, sleeps backoff_factor * 2^attempt before the next.
Retried ==
    /\ last_exception' = raised
    /\ wrapped' = wrapped
    /\ IF attempt < wrapped.max_retries - 1
       THEN pc' = "wrapper_sleep" /\ wait_time' = wrapped.backoff_factor * 2^attempt
       ELSE pc' = "wrapper" /\ wait_time' = wait_time

\* The exception in flight leaves the wrapper at once.
Propagated ==
    /\ pc' = "wrapper_raised"
    /\ raised' = raised
    /\ wrapped' = wrapped
    /\ wait_time' = wait_time
    /\ last_exception' = last_exception
    /\ attempt' = attempt

NetworkKinds ==
    {"TargetUnreachableError", "RequestTimeoutError", "SSLError", "DNSResolutionError",
     "TooManyRedirectsError", "ProxyError"}

\* C25 as stated: TargetUnreachable, Timeout, SSLError, DNSResolution,
\* TooManyRedirects, ProxyError and RateLimit are NetworkErrors, and the
\* wrapper with its default retryable set retries each of them.
C25_RateLimitRetried ==
    [][pc = "wrapper_except" /\ DefaultRetryable
          /\ raised \in NetworkKinds \cup {"RateLimitError"}
       => IsA(raised, "NetworkError") /\ Retried]_vars

\* C25, amended: TargetUnreachable, Timeout, SSLError, DNSResolution,
\* TooManyRedirects and ProxyError are NetworkErrors and the wrapper with its
\* default retryable set retries each of them; RateLimit is a ScanError, not a
\* NetworkError, and leaves that wrapper on its first occurrence.
C25_NetworkKindsRetried ==
    [][pc = "wrapper_except" /\ DefaultRetryable =>
          /\ raised \in NetworkKinds => IsA(raised, "NetworkError") /\ Retried
          /\ raised = "RateLimitError" =>
                /\ IsA(raised, "ScanError")
                /\ ~IsA(raised, "NetworkError")
                /\ Propagated]_vars

C25_Witness ==
    /\ pc = "wrapper_raised"
    /\ DefaultRetryable
    /\ raised = "RateLimitError"
    /\ last_exception = "ProxyError"
    /\ attempt = 1
    /\ wrapped.invoked = 2
    /\ wrapped.max_retries = 3

\* C27: an exception outside the wrapper's retryable set leaves the wrapper
\* on its first occurrence: it is not recorded, no wait happens, and the
\* wrapped function is not invoked again, whatever attempts remain.
C27_NonRetryablePropagates ==
    /\ [][pc = "wrapper_except" /\ ~(\E cls \in wrapped.exceptions : IsA(raised, cls))
          => Propagated]_vars
    /\ [][pc # "wrapper_raised"]_vars

C27_Witness ==
    /\ pc = "wrapper_raised"
    /\ raised = "InvalidTargetError"
    /\ attempt = 0
    /\ wrapped.invoked = 1
    /\ wrapped.max_retries = 3
    /\ wait_time = 0

\* C28: with max_retries <= 0 the wrapper never invokes the wrapped function
\* and never returns: its only step is the final `raise last_exception` with
\* nothing recorded, which ends it in an error (TypeError).
C28_NoRetriesNoCall ==
    /\ [](wrapped.max_retries <= 0 =>
            /\ wrapped.invoked = 0
            /\ last_exception = "None"
            /\ pc \in {"wrapper", "wrapper_raised"}
            /\ pc = "wrapper_raised" => raised = "TypeError")
    /\ [][wrapped.max_retries <= 0 => pc = "wrapper" /\ pc' = "wrapper_raised"]_vars

C28_Witness ==
    /\ wrapped.max_retries <= 0
    /\ pc = "wrapper_raised"
    /\ raised = "TypeError"
    /\ wrapped.invoked = 0
    /\ last_exception = "None"

-----------------------------------------------------------------------------
(* A second scan() on the same scanner object: the run starts where an      *)
(* earlier scan() of the object has returned.                              *)

\* The requests one complete scan of the model issues.
RECURSIVE VariantsOfFirst(_)
VariantsOfFirst(n) == IF n = 0 THEN 0 ELSE Variants(n) + VariantsOfFirst(n - 1)

ProbesPerScan == VariantsOfFirst(Cardinality(Submitted))

\* The earlier scan: its baseline, and the response its retained probes got.
EarlierBaseline == Response(200, Content(2000, "H0", ""), ("Server" :> "CloudFront"))

EarlierProbe ==
    Response(200, Content(2000, "H1", "Traceback; Warning: x"), ("Server" :> "Apache"))

\* What _is_bypass returned for that response under that baseline.
EarlierVerdict == Verdict(TRUE, Reason("Backend exposed", 0, 0, "traceback"), "CRITICAL")

\* self.results as the earlier scan left it when the first n variants of its
\* first technique were retained.
EarlierResults(n) == [i \in 1..n |-> ProbeResult(1, i, EarlierProbe, EarlierVerdict)]

\* The scanner after its earlier scan() has returned: the baseline fields and
\* the results of that scan are in place, its futures are gone, and the caller
\* is about to call scan() again.
InitRescan ==
    /\ _baseline_size = len(EarlierBaseline.content)
    /\ _baseline_hash = md5(EarlierBaseline.content)
    /\ _baseline_status = EarlierBaseline.status_code
    /\ _baseline_headers = dict(EarlierBaseline.headers)
    /\ _is_bypass(EarlierProbe) = EarlierVerdict
    /\ \E n \in {1, Variants(1)} : results = EarlierResults(n)
    /\ calls = 0
    /\ bypass_result = NoCall
    /\ pc = "constructed"
    /\ threads \in 1..MaxThreads
    /\ attempt = 0
    /\ last_exception = "None"
    /\ wait_time = 0
    /\ raised = "None"
    /\ tasks = [t \in Submitted |-> IdleTask]
    /\ error_count = 0
    /\ probes = ProbesPerScan
    /\ args = Args("https://example.com", PyInt(threads), PyFloat(200), PyInt(5))
    /\ exit_code = NoExit
    /\ wrapped = NoWrapper

NextRescan == Next

SpecRescan == InitRescan /\ [][NextRescan]_vars

-----------------------------------------------------------------------------
(* Properties of repeated scans, checked under SpecRescan.                 *)

IsPrefix(s, t) == Len(s) <= Len(t) /\ SubSeq(t, 1, Len(s)) = s

\* The results the earlier scan() left on the object.
Earlier == {EarlierResults(n) : n \in {1, Variants(1)}}

\* C29: scan() never clears self.results: calling it again leaves the earlier
\* results in place, every step of the second scan only extends the list, and
\* what the second call returns is the earlier results followed by its own.
C29_ResultsOnlyGrow ==
    /\ [][IsPrefix(results, results')]_vars
    /\ [][pc = "constructed" /\ pc' = "baseline" => results' = results]_vars
    /\ [](pc = "returned" =>
            \E earlier \in {e \in Earlier : IsPrefix(e, results)} :
               /\ Len(results) - Len(earlier) <= probes - ProbesPerScan
               /\ \A i \in (Len(earlier) + 1)..Len(results) : results[i].bypass)

C29_Witness ==
    /\ pc = "returned"
    /\ probes = 2 * ProbesPerScan
    /\ Len(results) > ProbesPerScan
    /\ _baseline_size = 1000
    /\ IsPrefix(EarlierResults(Variants(1)), results)

====
